---- MODULE Spec2Model ----
(***************************************************************************)
(* The Whisper transcription server of src/api.py: POST /transcribe in its *)
(* synchronous and webhook (background task) modes, the background job     *)
(* process_transcription and the webhook notifier send_webhook.            *)
(*                                                                         *)
(* Spec      the server: requests are validated, handled and answered by   *)
(*           the framework route declared at src/api.py:121.               *)
(* OneSpec   one request, its body drawn from every field combination.     *)
(* ShellSpec the server with GET / and GET /health beside POST /transcribe.*)
(* JobSpec   the background job function process_transcription (and        *)
(*           send_webhook) called with arguments drawn from bounded sets.  *)
(***************************************************************************)
EXTENDS Integers, Sequences, FiniteSets, TLC

\* ------------------------------------------------------------------ bounds
\* Number of POST /transcribe requests (and of job calls) in one behaviour.
MaxRequests == 2

Req == 1..MaxRequests

\* ------------------------------------------------------------ Optional[T]
\* Optional[T] (api.py:44, 48, 94): None is the empty tuple, a value v is <<v>>.
None == <<>>
Some(v) == <<v>>

\* -------------------------------------------------------------- the inputs
\* A resource locator as the validator sees it: scheme, host and the rest.
Url(s, h, p) == [scheme |-> s, host |-> h, path |-> p]

\* str(request.url): the locator written out again (api.py:156, 158, 166).
UrlStr(u) == IF u.scheme = "" THEN u.host \o u.path
             ELSE u.scheme \o "://" \o u.host \o u.path

AudioUrl == Url("https", "example.com", "/a.wav")
NotAUrl == Url("", "", "not-a-url")
HookUrl == Url("https", "client.example", "/hook")
NoHostUrl == Url("https", "", "/hook")

UrlInputs == {AudioUrl, NotAUrl}
WebhookInputs == {None, Some(HookUrl), Some(NoHostUrl)}
LanguageInputs == {None, Some(""), Some("en")}
TaskInputs == {"transcribe", "summarize"}
WordTimestampsInputs == BOOLEAN
\* temperature in tenths: 0.0 and 0.7
TemperatureInputs == {0, 7}

\* The JSON bodies a client may POST to /transcribe: every combination.
RawRequests == [url : UrlInputs,
                language : LanguageInputs,
                task : TaskInputs,
                word_timestamps : WordTimestampsInputs,
                temperature : TemperatureInputs,
                webhook_url : WebhookInputs]

\* The option fields of the bodies posted when several requests are in one
\* behaviour: the defaults of api.py:44-47 and three other settings.
OptionSettings ==
    {[language |-> None, task |-> "transcribe",
      word_timestamps |-> FALSE, temperature |-> 0],
     [language |-> Some(""), task |-> "transcribe",
      word_timestamps |-> TRUE, temperature |-> 0],
     [language |-> Some("en"), task |-> "summarize",
      word_timestamps |-> FALSE, temperature |-> 7],
     [language |-> Some("en"), task |-> "transcribe",
      word_timestamps |-> TRUE, temperature |-> 7]}

PostedRequests ==
    {raw \in RawRequests :
        [language |-> raw.language, task |-> raw.task,
         word_timestamps |-> raw.word_timestamps,
         temperature |-> raw.temperature] \in OptionSettings}

\* What model.transcribe can return: text, language and segments.
Results == {[text |-> " hello", language |-> "en",
             segments |-> <<[id |-> 0, text |-> " hello"]>>],
            [text |-> "", language |-> "de", segments |-> <<>>]}

\* What model.transcribe can raise: the messages of its exceptions.
Failures == {"HTTP Error 404: Not Found", "Failed to load audio"}

\* ------------------------------------------------------------ validation
\* pydantic's HttpUrl (api.py:43, 48): an http or https scheme and a host.
HttpUrl(u) == u.scheme \in {"http", "https"} /\ u.host # ""

\* As TranscribeRequest, with webhook_url declared a plain Optional[str].
TranscribeRequest_UrlOnly(raw) == HttpUrl(raw.url)

\* TranscribeRequest (api.py:41-48): the body parses when url is an HttpUrl
\* and webhook_url is absent or an HttpUrl; language, task, word_timestamps
\* and temperature are not constrained beyond their types.
TranscribeRequest(raw) ==
    /\ HttpUrl(raw.url)
    /\ raw.webhook_url # None => HttpUrl(raw.webhook_url[1])

\* Python truth of an Optional[str] (api.py:149, 101, 112): None and the
\* empty string are false.
TruthyStr(o) == o # None /\ o[1] # ""

\* Python truth of request.webhook_url (api.py:153): an Optional[HttpUrl];
\* a validated HttpUrl is never empty.
TruthyUrl(o) == o # None

\* ------------------------------------------------------- transcribe_audio
\* As BuildOptions, testing "request.language is not None".
BuildOptions_IsNotNone(request) ==
    IF request.language # None
    THEN [task |-> request.task,
          word_timestamps |-> request.word_timestamps,
          temperature |-> request.temperature,
          language |-> request.language[1]]
    ELSE [task |-> request.task,
          word_timestamps |-> request.word_timestamps,
          temperature |-> request.temperature]

\* The options bag (api.py:143-150).
BuildOptions(request) ==
    IF TruthyStr(request.language)
    THEN [task |-> request.task,
          word_timestamps |-> request.word_timestamps,
          temperature |-> request.temperature,
          language |-> request.language[1]]
    ELSE [task |-> request.task,
          word_timestamps |-> request.word_timestamps,
          temperature |-> request.temperature]

\* As AsyncMode, with the webhook branch never taken.
AsyncMode_Never(request) == FALSE

\* The branch of api.py:153: a webhook_url selects the background path.
AsyncMode(request) == TruthyUrl(request.webhook_url)

\* The arguments of background_tasks.add_task (api.py:154-159).
TaskArgs(request) ==
    [audio_url |-> UrlStr(request.url),
     options |-> BuildOptions(request),
     webhook_url |-> Some(UrlStr(request.webhook_url[1]))]

\* The dict returned on the background path (api.py:161).
Accepted ==
    [status |-> "accepted",
     message |-> "Transcription started, result will be sent to webhook"]

\* As TranscribeResponse, with the segments left out.
TranscribeResponse_NoSegments(result) ==
    [text |-> result.text, language |-> result.language, segments |-> <<>>]

\* TranscribeResponse(...) built from the result (api.py:169-173).
TranscribeResponse(result) ==
    [text |-> result.text, language |-> result.language,
     segments |-> result.segments]

\* As TranscriptionFailed, without the exception's message.
TranscriptionFailed_NoMessage(msg) ==
    [status_code |-> 500, detail |-> "Transcription failed"]

\* The HTTPException raised on failure (api.py:175-180).
TranscriptionFailed(msg) ==
    [status_code |-> 500, detail |-> "Transcription failed: " \o msg]

\* ------------------------------------------------- the framework's route
\* The fields of the route's response_model (api.py:51-55, 121).
ResponseModelFields == {"text", "language", "segments"}

\* The route validates what the handler returned against response_model
\* (api.py:121): every field of TranscribeResponse is required.
ResponseModelValid(content) == ResponseModelFields \subseteq DOMAIN content

\* The body the route sends for valid content: the response_model's fields.
Serialize(content) == [f \in ResponseModelFields |-> content[f]]

NoResponse == [status |-> 0, body |-> [detail |-> "no response yet"]]
NoReturn == [kind |-> "none"]
NoJob == [audio_url |-> "", options |-> [task |-> ""], webhook_url |-> None]
NoOutcome == [kind |-> "none"]
NoData == [site |-> "none", json |-> [status |-> "none"]]
NoRequest == [url |-> NotAUrl, language |-> None, task |-> "",
              word_timestamps |-> FALSE, temperature |-> 0,
              webhook_url |-> None]

VARIABLES
    pc,          \* per request: idle, handler, transcribing, returned, responded
    request,     \* per request: the body posted
    loop,        \* the request the event loop is running the handler of, or 0
    tasks,       \* per request: background_tasks, the queued task arguments
    ret,         \* per request: what the handler returned or raised
    resp,        \* per request: the HTTP response sent to the caller
    calls,       \* per request/job: the model.transcribe calls made for it
    jpc,         \* per job: idle, transcribing, posting, done, failed
    jargs,       \* per job: the arguments of process_transcription
    jout,        \* per job: the outcome of its model.transcribe call
    jdata,       \* per job: the payload being sent, and where it was built
    posts,       \* per job: the requests.post attempts made, in order
    MODEL_NAME,  \* the configured model identifier (api.py:35)
    model,       \* the loaded model handle (api.py:37)
    lastGet      \* the latest answer of GET / or GET /health

vars == <<pc, request, loop, tasks, ret, resp, calls,
          jpc, jargs, jout, jdata, posts, MODEL_NAME, model, lastGet>>

serverVars == <<pc, request, loop, tasks, ret, resp>>
jobVars == <<jpc, jargs, jout, jdata, posts>>
shellVars == <<MODEL_NAME, model, lastGet>>

\* The values of WHISPER_MODEL the process may be started with (api.py:35):
\* unset, which gives "base", or "tiny".
ModelNames == {"base", "tiny"}

\* whisper.load_model(name) (api.py:37): the handle of the model of that name.
load_model(name) == [name |-> name]

NoGet == [path |-> "", status |-> 0, body |-> [status |-> "", model |-> ""]]

Init ==
    /\ pc = [r \in Req |-> "idle"]
    /\ request = [r \in Req |-> NoRequest]
    /\ loop = 0
    /\ tasks = [r \in Req |-> <<>>]
    /\ ret = [r \in Req |-> NoReturn]
    /\ resp = [r \in Req |-> NoResponse]
    /\ calls = [r \in Req |-> <<>>]
    /\ jpc = [r \in Req |-> "idle"]
    /\ jargs = [r \in Req |-> NoJob]
    /\ jout = [r \in Req |-> NoOutcome]
    /\ jdata = [r \in Req |-> NoData]
    /\ posts = [r \in Req |-> <<>>]
    /\ MODEL_NAME \in ModelNames
    /\ model = load_model(MODEL_NAME)
    /\ lastGet = NoGet

\* ------------------------------------------------------ the server's steps
\* As LoopFree, with the handler run off the event loop (a plain def).
LoopFree_Always == TRUE

\* transcribe_audio, root and health are coroutines (api.py:65, 80, 122) and
\* model.transcribe is called in transcribe_audio without an await
\* (api.py:166): the one event loop takes up a request only when it is not
\* inside a handler.
LoopFree == loop = 0

\* As root_body, reporting the default model name.
root_body_Default ==
    [status |-> "ok", message |-> "Whisper API is running", model |-> "base",
     endpoints |-> [transcribe |-> "/transcribe (POST)",
                    health |-> "/health (GET)", docs |-> "/docs"]]

\* The body of GET / (api.py:67-76).
root_body ==
    [status |-> "ok", message |-> "Whisper API is running",
     model |-> MODEL_NAME,
     endpoints |-> [transcribe |-> "/transcribe (POST)",
                    health |-> "/health (GET)", docs |-> "/docs"]]

\* As health_body, reporting the default model name.
health_body_Default == [status |-> "healthy", model |-> "base"]

\* The body of GET /health (api.py:82).
health_body == [status |-> "healthy", model |-> MODEL_NAME]

\* GET / (api.py:64-76).
root ==
    /\ LoopFree
    /\ lastGet' = [path |-> "/", status |-> 200, body |-> root_body]
    /\ UNCHANGED <<serverVars, calls, jobVars, MODEL_NAME, model>>

\* GET /health (api.py:79-82).
health ==
    /\ LoopFree
    /\ lastGet' = [path |-> "/health", status |-> 200, body |-> health_body]
    /\ UNCHANGED <<serverVars, calls, jobVars, MODEL_NAME, model>>

\* A body that does not parse as a TranscribeRequest (api.py:41-48, 122):
\* the route answers 422 and transcribe_audio is not entered.
RejectRequest(r, raw) ==
    /\ pc[r] = "idle"
    /\ LoopFree
    /\ ~TranscribeRequest(raw)
    /\ request' = [request EXCEPT ![r] = raw]
    /\ resp' = [resp EXCEPT ![r] =
                  [status |-> 422, body |-> [detail |-> "validation error"]]]
    /\ pc' = [pc EXCEPT ![r] = "responded"]
    /\ UNCHANGED <<loop, tasks, ret, calls, jobVars,
                 shellVars>>

\* A body that parses: the event loop enters transcribe_audio (api.py:122).
AcceptRequest(r, raw) ==
    /\ pc[r] = "idle"
    /\ LoopFree
    /\ TranscribeRequest(raw)
    /\ request' = [request EXCEPT ![r] = raw]
    /\ loop' = r
    /\ pc' = [pc EXCEPT ![r] = "handler"]
    /\ UNCHANGED <<tasks, ret, resp, calls, jobVars,
                 shellVars>>

\* transcribe_audio with a webhook_url (api.py:143-161): the task is added
\* to background_tasks and the acknowledgement dict is returned.
QueueTranscription(r) ==
    /\ pc[r] = "handler"
    /\ AsyncMode(request[r])
    /\ tasks' = [tasks EXCEPT ![r] = Append(@, TaskArgs(request[r]))]
    /\ ret' = [ret EXCEPT ![r] = [kind |-> "return", content |-> Accepted]]
    /\ pc' = [pc EXCEPT ![r] = "returned"]
    /\ UNCHANGED <<request, loop, resp, calls, jobVars,
                 shellVars>>

\* transcribe_audio without a webhook_url (api.py:143-150, 164-166): the
\* handler calls model.transcribe inline, on the event loop.
CallTranscribe(r) ==
    /\ pc[r] = "handler"
    /\ ~AsyncMode(request[r])
    /\ calls' = [calls EXCEPT ![r] =
                   Append(@, [audio |-> UrlStr(request[r].url),
                              options |-> BuildOptions(request[r]),
                              by |-> "transcribe_audio"])]
    /\ pc' = [pc EXCEPT ![r] = "transcribing"]
    /\ UNCHANGED <<request, loop, tasks, ret, resp, jobVars,
                 shellVars>>

\* model.transcribe returns (api.py:166-173).
TranscribeReturns(r, result) ==
    /\ pc[r] = "transcribing"
    /\ ret' = [ret EXCEPT ![r] =
                 [kind |-> "return", content |-> TranscribeResponse(result),
                  result |-> result]]
    /\ pc' = [pc EXCEPT ![r] = "returned"]
    /\ UNCHANGED <<request, loop, tasks, resp, calls, jobVars,
                 shellVars>>

\* model.transcribe raises (api.py:175-180).
TranscribeRaises(r, msg) ==
    /\ pc[r] = "transcribing"
    /\ ret' = [ret EXCEPT ![r] =
                 [kind |-> "raise", content |-> TranscriptionFailed(msg),
                  error |-> msg]]
    /\ pc' = [pc EXCEPT ![r] = "returned"]
    /\ UNCHANGED <<request, loop, tasks, resp, calls, jobVars,
                 shellVars>>

\* The route's answer to what transcribe_audio returned or raised
\* (api.py:121). An HTTPException becomes its status and detail. A returned
\* value is validated against response_model = TranscribeResponse: valid
\* content is sent with status 200 and the background tasks are attached to
\* the response, to run once it has been sent; invalid content raises in the
\* route before any response object exists, the caller gets 500 and the
\* queued background tasks are dropped with the request.
RouteResponse(r) ==
    IF ret[r].kind = "raise"
    THEN [status |-> ret[r].content.status_code,
          body |-> [detail |-> ret[r].content.detail]]
    ELSE IF ResponseModelValid(ret[r].content)
    THEN [status |-> 200, body |-> Serialize(ret[r].content)]
    ELSE [status |-> 500, body |-> [plain |-> "Internal Server Error"]]

\* Whether the response carries the background tasks (api.py:121, 154).
RunsBackground(r) ==
    /\ ret[r].kind = "return"
    /\ ResponseModelValid(ret[r].content)
    /\ tasks[r] # <<>>

Respond(r) ==
    /\ pc[r] = "returned"
    /\ resp' = [resp EXCEPT ![r] = RouteResponse(r)]
    /\ pc' = [pc EXCEPT ![r] = "responded"]
    /\ loop' = 0
    /\ IF RunsBackground(r)
       THEN /\ jpc' = [jpc EXCEPT ![r] = "scheduled"]
            /\ jargs' = [jargs EXCEPT ![r] = tasks[r][1]]
       ELSE UNCHANGED <<jpc, jargs>>
    /\ UNCHANGED <<request, tasks, ret, calls, jout, jdata, posts,
                 shellVars>>

Next ==
    \/ \E r \in Req, raw \in PostedRequests : RejectRequest(r, raw)
    \/ \E r \in Req, raw \in PostedRequests : AcceptRequest(r, raw)
    \/ \E r \in Req : QueueTranscription(r)
    \/ \E r \in Req : CallTranscribe(r)
    \/ \E r \in Req, result \in Results : TranscribeReturns(r, result)
    \/ \E r \in Req, msg \in Failures : TranscribeRaises(r, msg)
    \/ \E r \in Req : Respond(r)

\* The server: MaxRequests requests, each body drawn from PostedRequests.
Spec == Init /\ [][Next]_vars

\* The bodies that leave every option at its default (api.py:44-47).
DefaultRequests ==
    {raw \in RawRequests :
        /\ raw.language = None /\ raw.task = "transcribe"
        /\ ~raw.word_timestamps /\ raw.temperature = 0}

\* The whole HTTP surface: GET /, GET /health and POST /transcribe, the
\* bodies drawn from DefaultRequests.
ShellNext ==
    \/ root
    \/ health
    \/ \E r \in Req, raw \in DefaultRequests : RejectRequest(r, raw)
    \/ \E r \in Req, raw \in DefaultRequests : AcceptRequest(r, raw)
    \/ \E r \in Req : QueueTranscription(r)
    \/ \E r \in Req : CallTranscribe(r)
    \/ \E r \in Req, result \in Results : TranscribeReturns(r, result)
    \/ \E r \in Req, msg \in Failures : TranscribeRaises(r, msg)
    \/ \E r \in Req : Respond(r)

ShellSpec == Init /\ [][ShellNext]_vars

\* One request, its body drawn from every combination of the fields.
OneNext ==
    \/ \E raw \in RawRequests : RejectRequest(1, raw)
    \/ \E raw \in RawRequests : AcceptRequest(1, raw)
    \/ QueueTranscription(1)
    \/ CallTranscribe(1)
    \/ \E result \in Results : TranscribeReturns(1, result)
    \/ \E msg \in Failures : TranscribeRaises(1, msg)
    \/ Respond(1)

OneSpec == Init /\ [][OneNext]_vars

\* --------------------------------------------------- the background job
\* The arguments process_transcription is called with (api.py:94): an audio
\* address, an options bag, and a webhook address that may be None or empty.
OtherHook == "https://other.example/hook"

JobArgs ==
    [audio_url : {UrlStr(AudioUrl)},
     options : {BuildOptions(o) : o \in {x \in OptionSettings : ~x.word_timestamps}},
     webhook_url : {None, Some(""), Some(UrlStr(HookUrl)), Some(OtherHook)}]

\* As webhook_data, with the segments left out.
webhook_data_NoSegments(result) ==
    [status |-> "completed", text |-> result.text,
     language |-> result.language, segments |-> <<>>]

\* The payload of a completed transcription (api.py:103-108).
webhook_data(result) ==
    [status |-> "completed", text |-> result.text,
     language |-> result.language, segments |-> result.segments]

\* As error_data, with a fixed text for the error.
error_data_NoMessage(msg) == [status |-> "error", error |-> "failed"]

\* The payload of a failed transcription (api.py:114-117).
error_data(msg) == [status |-> "error", error |-> msg]

\* What requests.post can raise (api.py:88): the messages of its exceptions.
PostFailures == {"Connection refused"}

\* As send_webhook_catches, with the exception raised again.
send_webhook_reraises == FALSE

\* send_webhook's except clause (api.py:90-91): an exception of requests.post
\* is logged and does not leave send_webhook.
send_webhook_catches == TRUE

\* process_transcription is entered (api.py:94-98): model.transcribe is
\* called with the audio address and the options.
StartTranscription(j, args) ==
    /\ jpc[j] = "idle"
    /\ jargs' = [jargs EXCEPT ![j] = args]
    /\ calls' = [calls EXCEPT ![j] =
                   Append(@, [audio |-> args.audio_url,
                              options |-> args.options,
                              by |-> "process_transcription"])]
    /\ jpc' = [jpc EXCEPT ![j] = "transcribing"]
    /\ UNCHANGED <<serverVars, jout, jdata, posts,
                 shellVars>>

\* model.transcribe returns in the job (api.py:98-109): with a webhook_url
\* the completed payload is built and send_webhook is called inside the try.
JobTranscribeReturns(j, result) ==
    /\ jpc[j] = "transcribing"
    /\ jout' = [jout EXCEPT ![j] = [kind |-> "return", result |-> result]]
    /\ IF TruthyStr(jargs[j].webhook_url)
       THEN /\ jdata' = [jdata EXCEPT ![j] =
                           [site |-> "try", json |-> webhook_data(result)]]
            /\ jpc' = [jpc EXCEPT ![j] = "posting"]
       ELSE /\ jpc' = [jpc EXCEPT ![j] = "done"]
            /\ UNCHANGED jdata
    /\ UNCHANGED <<serverVars, calls, jargs, posts,
                 shellVars>>

\* model.transcribe raises in the job (api.py:110-118): with a webhook_url
\* the error payload is built and send_webhook is called in the handler.
JobTranscribeRaises(j, msg) ==
    /\ jpc[j] = "transcribing"
    /\ jout' = [jout EXCEPT ![j] = [kind |-> "raise", error |-> msg]]
    /\ IF TruthyStr(jargs[j].webhook_url)
       THEN /\ jdata' = [jdata EXCEPT ![j] =
                           [site |-> "except", json |-> error_data(msg)]]
            /\ jpc' = [jpc EXCEPT ![j] = "posting"]
       ELSE /\ jpc' = [jpc EXCEPT ![j] = "done"]
            /\ UNCHANGED jdata
    /\ UNCHANGED <<serverVars, calls, jargs, posts,
                 shellVars>>

\* As Attempt, with the address and the payload kept in one slot that all
\* jobs share (here: the slot holds those of job 1 once it has them).
Attempt_SharedSlot(j, outcome) ==
    IF TruthyStr(jargs[1].webhook_url) /\ jdata[1] # NoData
    THEN [url |-> jargs[1].webhook_url[1], json |-> jdata[1].json,
          outcome |-> outcome]
    ELSE [url |-> jargs[j].webhook_url[1], json |-> jdata[j].json,
          outcome |-> outcome]

\* One requests.post attempt, as the receiver of the webhook sees it.
Attempt(j, outcome) ==
    [url |-> jargs[j].webhook_url[1], json |-> jdata[j].json,
     outcome |-> outcome]

\* send_webhook: requests.post returns a response, of whatever status
\* (api.py:88-89); send_webhook returns and so does the job.
PostAnswered(j) ==
    /\ jpc[j] = "posting"
    /\ posts' = [posts EXCEPT ![j] = Append(@, Attempt(j, "response"))]
    /\ jpc' = [jpc EXCEPT ![j] = "done"]
    /\ UNCHANGED <<serverVars, calls, jargs, jout, jdata,
                 shellVars>>

\* send_webhook: requests.post raises (api.py:88, 90-91). The exception is
\* caught in send_webhook, which returns normally. Were it to leave
\* send_webhook from the call of api.py:109, the handler of api.py:110 would
\* catch it and send the error payload; from the call of api.py:118 it would
\* leave the job.
PostRaises(j, err) ==
    /\ jpc[j] = "posting"
    /\ posts' = [posts EXCEPT ![j] = Append(@, Attempt(j, "exception"))]
    /\ IF send_webhook_catches
       THEN /\ jpc' = [jpc EXCEPT ![j] = "done"]
            /\ UNCHANGED jdata
       ELSE IF jdata[j].site = "try"
       THEN /\ jdata' = [jdata EXCEPT ![j] =
                           [site |-> "except", json |-> error_data(err)]]
            /\ jpc' = [jpc EXCEPT ![j] = "posting"]
       ELSE /\ jpc' = [jpc EXCEPT ![j] = "failed"]
            /\ UNCHANGED jdata
    /\ UNCHANGED <<serverVars, calls, jargs, jout,
                 shellVars>>

JobNext ==
    \/ \E j \in Req, args \in JobArgs : StartTranscription(j, args)
    \/ \E j \in Req, result \in Results : JobTranscribeReturns(j, result)
    \/ \E j \in Req, msg \in Failures : JobTranscribeRaises(j, msg)
    \/ \E j \in Req : PostAnswered(j)
    \/ \E j \in Req, err \in PostFailures : PostRaises(j, err)

\* process_transcription called MaxRequests times, the calls interleaved.
JobSpec == Init /\ [][JobNext]_vars

\* ------------------------------------------------------------ the claims
\* A well-formed resource locator: a scheme and a host at the least.
WellFormed(u) == u.scheme # "" /\ u.host # ""

\* Request r has been posted, with a well-formed url and, when it carries
\* one, a well-formed webhook_url.
ValidPosted(r) ==
    /\ pc[r] # "idle"
    /\ WellFormed(request[r].url)
    /\ request[r].webhook_url # None => WellFormed(request[r].webhook_url[1])

WithWebhook(r) == ValidPosted(r) /\ request[r].webhook_url # None
WithoutWebhook(r) == ValidPosted(r) /\ request[r].webhook_url = None

\* Nothing more happens for request r: it is answered and no job of it is
\* scheduled or running.
Finished(r) ==
    /\ pc[r] = "responded"
    /\ jpc[r] \notin {"scheduled", "transcribing", "posting"}

\* The options handed on for request r: those of the model.transcribe call,
\* or those queued with the background task.
PassedOptions(r) ==
    IF calls[r] # <<>> THEN calls[r][1].options ELSE tasks[r][1].options

\* In the server no background job is ever scheduled or started: the only
\* handler return that queues a task is the one the route cannot serialize.
NoJobEverRuns ==
    \A r \in Req : jpc[r] = "idle" /\ posts[r] = <<>>

\* C1: every valid request with a webhook_url is answered with the
\* acknowledgement {status: "accepted", message} and a success status, and
\* model.transcribe has not been called for it when the answer is produced.
C1_AcknowledgedAtOnce ==
    \A r \in Req :
        WithWebhook(r) =>
            /\ pc[r] \in {"handler", "returned"} => calls[r] = <<>>
            /\ pc[r] = "responded" =>
                 /\ resp[r].status \in 200..299
                 /\ resp[r].body = Accepted

\* C2: for every valid request with a webhook_url exactly one POST to that
\* webhook_url is attempted: never two, and one once the request is finished.
C2_ExactlyOneWebhookPost ==
    \A r \in Req :
        WithWebhook(r) =>
            /\ Len(posts[r]) <= 1
            /\ Finished(r) =>
                 /\ Len(posts[r]) = 1
                 /\ posts[r][1].url = UrlStr(request[r].webhook_url[1])

\* C3: a valid request without webhook_url is answered only after its
\* model.transcribe call has completed, and on success the answer is 200
\* with exactly the text, language and segments that call returned.
C3_SyncResult ==
    \A r \in Req :
        WithoutWebhook(r) =>
            /\ resp[r].status # 0 =>
                 /\ Len(calls[r]) = 1
                 /\ ret[r].kind \in {"return", "raise"}
            /\ (pc[r] = "responded" /\ ret[r].kind = "return") =>
                 /\ resp[r].status = 200
                 /\ resp[r].body = [text |-> ret[r].result.text,
                                    language |-> ret[r].result.language,
                                    segments |-> ret[r].result.segments]

\* C3 happens: a synchronous request answered with a result.
C3_Witness ==
    \E r \in Req :
        /\ WithoutWebhook(r) /\ pc[r] = "responded"
        /\ ret[r].kind = "return"
        /\ ret[r].result.segments # <<>>
        /\ resp[r].status = 200

\* Request r was posted with a url, or a webhook_url, that is not well-formed.
Malformed(r) ==
    /\ pc[r] # "idle"
    /\ \/ ~WellFormed(request[r].url)
       \/ /\ request[r].webhook_url # None
          /\ ~WellFormed(request[r].webhook_url[1])

\* C4: a request whose url or webhook_url is not well-formed is answered
\* with a client error, and for it model.transcribe is never called, no
\* background task is queued or run, and no webhook POST is attempted.
C4_MalformedRejected ==
    \A r \in Req :
        Malformed(r) =>
            /\ pc[r] = "responded"
            /\ resp[r].status \in 400..499
            /\ calls[r] = <<>>
            /\ tasks[r] = <<>>
            /\ jpc[r] = "idle"
            /\ posts[r] = <<>>

\* C4 happens: a request rejected for its webhook_url alone.
C4_Witness ==
    \E r \in Req :
        /\ Malformed(r)
        /\ WellFormed(request[r].url)
        /\ resp[r].status = 422

\* C5: when model.transcribe raises for a request without webhook_url the
\* caller gets status 500 with the exception's message in the detail, the
\* call is not made again, and the body carries no transcription.
C5_SyncFailure ==
    \A r \in Req :
        WithoutWebhook(r) =>
            /\ Len(calls[r]) <= 1
            /\ (pc[r] = "responded" /\ ret[r].kind = "raise") =>
                 /\ resp[r].status = 500
                 /\ DOMAIN resp[r].body = {"detail"}
                 /\ resp[r].body.detail =
                      "Transcription failed: " \o ret[r].error
                 /\ Len(calls[r]) = 1

\* C5 happens: a synchronous request answered after model.transcribe raised.
C5_Witness ==
    \E r \in Req :
        /\ WithoutWebhook(r) /\ pc[r] = "responded"
        /\ ret[r].kind = "raise"
        /\ resp[r].status = 500

\* C6: when model.transcribe raises in a job that has a webhook_url, the
\* exception does not leave the job, and the job attempts exactly one POST,
\* to its webhook_url, with the payload {status: "error", error: message};
\* it sends no "completed" payload.
C6_JobFailureNotified ==
    \A j \in Req :
        (jout[j].kind = "raise" /\ TruthyStr(jargs[j].webhook_url)) =>
            /\ jpc[j] \in {"posting", "done"}
            /\ \A i \in 1..Len(posts[j]) : posts[j][i].json.status # "completed"
            /\ Len(posts[j]) <= 1
            /\ jpc[j] = "done" =>
                 /\ Len(posts[j]) = 1
                 /\ posts[j][1].url = jargs[j].webhook_url[1]
                 /\ posts[j][1].json =
                      [status |-> "error", error |-> jout[j].error]

\* C6 happens: a job whose model.transcribe raised has sent its payload.
C6_Witness ==
    \E j \in Req :
        /\ jout[j].kind = "raise" /\ TruthyStr(jargs[j].webhook_url)
        /\ jpc[j] = "done"
        /\ Len(posts[j]) = 1

\* C7: when the POST attempt itself fails it is only logged: the job makes
\* no second attempt (a failed "completed" delivery is not followed by an
\* "error" payload), the job ends normally, and no response of the server
\* is touched.
C7_FailedPostNotRetried ==
    \A j \in Req :
        /\ jpc[j] # "failed"
        /\ (posts[j] # <<>> /\ posts[j][1].outcome = "exception") =>
              /\ Len(posts[j]) = 1
              /\ jpc[j] = "done"
              /\ resp[j] = NoResponse

\* C7 happens: the delivery of a "completed" payload failed.
C7_Witness ==
    \E j \in Req :
        /\ posts[j] # <<>>
        /\ posts[j][1].outcome = "exception"
        /\ posts[j][1].json.status = "completed"
        /\ jpc[j] = "done"

\* C8: every valid request has model.transcribe called exactly once for it,
\* in either mode: never twice, and once by the time it is finished.
C8_InvokedExactlyOnce ==
    \A r \in Req :
        ValidPosted(r) =>
            /\ Len(calls[r]) <= 1
            /\ Finished(r) => Len(calls[r]) = 1

\* The fields of the request the options bag mirrors.
OptionsMirrorRequest(r) ==
    LET o == PassedOptions(r) IN
    /\ {"task", "word_timestamps", "temperature"} \subseteq DOMAIN o
    /\ DOMAIN o \subseteq {"task", "word_timestamps", "temperature", "language"}
    /\ o.task = request[r].task
    /\ o.word_timestamps = request[r].word_timestamps
    /\ o.temperature = request[r].temperature
    /\ "language" \in DOMAIN o => o.language = request[r].language[1]

OptionsPassed(r) == calls[r] # <<>> \/ tasks[r] # <<>>

\* C9 as stated: the options bag has task, word_timestamps and temperature
\* of the request, never url or webhook_url, and has language exactly when
\* the request supplied one.
C9_LanguageWhenSupplied ==
    \A r \in Req :
        OptionsPassed(r) =>
            /\ OptionsMirrorRequest(r)
            /\ "language" \in DOMAIN PassedOptions(r)
                 <=> request[r].language # None

\* C9 amended: the options bag has task, word_timestamps and temperature of
\* the request, never url or webhook_url, and has language exactly when the
\* request supplied a non-empty one.
C9_LanguageWhenNonEmpty ==
    \A r \in Req :
        OptionsPassed(r) =>
            /\ OptionsMirrorRequest(r)
            /\ "language" \in DOMAIN PassedOptions(r)
                 <=> (request[r].language # None /\ request[r].language[1] # "")

\* C9 happens: model.transcribe called for a request whose language is "".
C9_Witness ==
    \E r \in Req :
        /\ calls[r] # <<>>
        /\ request[r].language = Some("")
        /\ request[r].word_timestamps
        /\ request[r].temperature = 7

\* C10: the mode follows from webhook_url alone. A valid request without
\* one has model.transcribe called by the handler and never queues a task,
\* starts a job or causes a POST; a valid request with one never has
\* model.transcribe called by the handler.
C10_ModeByWebhook ==
    \A r \in Req :
        /\ WithoutWebhook(r) =>
             /\ tasks[r] = <<>>
             /\ jpc[r] = "idle"
             /\ posts[r] = <<>>
             /\ pc[r] \in {"transcribing", "returned", "responded"} =>
                  /\ Len(calls[r]) = 1
                  /\ calls[r][1].by = "transcribe_audio"
        /\ WithWebhook(r) =>
             /\ pc[r] # "transcribing"
             /\ \A i \in 1..Len(calls[r]) : calls[r][i].by # "transcribe_audio"
             /\ pc[r] \in {"returned", "responded"} => Len(tasks[r]) = 1

\* C10 happens: one request answered in each mode.
C10_Witness ==
    \E r, q \in Req :
        /\ WithoutWebhook(r) /\ pc[r] = "responded"
        /\ WithWebhook(q) /\ pc[q] = "responded"

\* Where a callback-bearing job stands in the machine
\* submitted -> acknowledged -> running -> notified-success | notified-failure;
\* "outside" is any state the machine does not have.
Phase(r) ==
    IF pc[r] = "idle" THEN "none"
    ELSE IF pc[r] \in {"handler", "transcribing", "returned"}
    THEN (IF jpc[r] = "idle" /\ pc[r] # "transcribing"
          THEN "submitted" ELSE "outside")
    ELSE IF ~(resp[r].status \in 200..299 /\ resp[r].body = Accepted)
    THEN "outside"
    ELSE IF jpc[r] \in {"idle", "scheduled"} THEN "acknowledged"
    ELSE IF jpc[r] \in {"transcribing", "posting"} THEN "running"
    ELSE IF jpc[r] = "done" /\ Len(posts[r]) = 1
    THEN (IF posts[r][1].json.status = "completed"
          THEN "notified-success" ELSE "notified-failure")
    ELSE "outside"

PhaseSteps ==
    {<<"none", "submitted">>, <<"submitted", "acknowledged">>,
     <<"acknowledged", "running">>, <<"running", "notified-success">>,
     <<"running", "notified-failure">>}
    \cup {<<ph, ph>> : ph \in {"none", "submitted", "acknowledged", "running",
                               "notified-success", "notified-failure"}}

\* C11: a callback-bearing job only moves submitted -> acknowledged ->
\* running -> notified-success or notified-failure: the Invoker starts
\* after the acknowledgement has been sent, the POST follows the Invoker,
\* and no step is skipped, repeated or taken backwards.
C11_JobStateMachine ==
    [][\A r \in Req :
          WithWebhook(r)' => <<Phase(r), Phase(r)'>> \in PhaseSteps]_vars

\* C12: the payload of a job with a webhook_url matches the outcome of its
\* model.transcribe call: "completed", with the result's text, language and
\* segments unchanged, exactly when the call returned; "error" exactly when
\* it raised; and the job sends one payload, once.
C12_PayloadMatchesOutcome ==
    \A j \in Req :
        TruthyStr(jargs[j].webhook_url) =>
            /\ Len(posts[j]) <= 1
            /\ jpc[j] = "done" => Len(posts[j]) = 1
            /\ \A i \in 1..Len(posts[j]) :
                 LET p == posts[j][i].json IN
                 /\ p.status \in {"completed", "error"}
                 /\ p.status = "completed" =>
                      /\ jout[j].kind = "return"
                      /\ p = [status |-> "completed",
                              text |-> jout[j].result.text,
                              language |-> jout[j].result.language,
                              segments |-> jout[j].result.segments]
                 /\ p.status = "error" =>
                      /\ jout[j].kind = "raise"
                      /\ p = [status |-> "error", error |-> jout[j].error]

\* C12 happens: a job has sent the payload of a result that has segments.
C12_Witness ==
    \E j \in Req :
        /\ jpc[j] = "done" /\ jout[j].kind = "return"
        /\ jout[j].result.segments # <<>>
        /\ Len(posts[j]) = 1
        /\ posts[j][1].json.status = "completed"

\* C13: a valid request whose task is neither "transcribe" nor "translate"
\* is not rejected, and its task reaches model.transcribe unchanged in the
\* options bag, in either mode: every call made for it carries the task,
\* and one has been made by the time the request is finished.
C13_UnknownTaskReachesModel ==
    \A r \in Req :
        (ValidPosted(r) /\ request[r].task \notin {"transcribe", "translate"}) =>
            /\ resp[r].status \notin 400..499
            /\ \A i \in 1..Len(calls[r]) :
                 calls[r][i].options.task = request[r].task
            /\ Finished(r) => calls[r] # <<>>

\* C14: whatever the interleaving of the jobs, each job calls
\* model.transcribe with its own audio address and options, and its one
\* POST goes to its own webhook_url with the payload of its own outcome.
C14_JobsIsolated ==
    \A j \in Req :
        /\ \A i \in 1..Len(calls[j]) :
             /\ calls[j][i].audio = jargs[j].audio_url
             /\ calls[j][i].options = jargs[j].options
        /\ Len(posts[j]) <= 1
        /\ \A i \in 1..Len(posts[j]) :
             /\ posts[j][i].url = jargs[j].webhook_url[1]
             /\ jout[j].kind = "return" =>
                  /\ posts[j][i].json.status = "completed"
                  /\ posts[j][i].json.text = jout[j].result.text
                  /\ posts[j][i].json.language = jout[j].result.language
                  /\ posts[j][i].json.segments = jout[j].result.segments
             /\ jout[j].kind = "raise" =>
                  posts[j][i].json = [status |-> "error", error |-> jout[j].error]

\* C14 happens: two jobs with different addresses, options and outcomes in
\* flight together, one already notified while the other is still sending.
C14_Witness ==
    \E j, k \in Req :
        /\ jpc[j] = "posting" /\ jpc[k] = "done"
        /\ Len(posts[k]) = 1
        /\ TruthyStr(jargs[j].webhook_url)
        /\ jargs[j].webhook_url # jargs[k].webhook_url
        /\ jargs[j].options # jargs[k].options
        /\ jout[j].kind # jout[k].kind

\* C15: while model.transcribe of a synchronous request is in progress the
\* event loop serves nothing else: GET / and GET /health cannot be answered,
\* and no other request is validated or answered.
C15_SyncBlocksLoop ==
    /\ []((\E r \in Req : pc[r] = "transcribing") =>
             ~ENABLED root /\ ~ENABLED health)
    /\ [][\A r \in Req :
             pc[r] = "transcribing" =>
                 /\ lastGet' = lastGet
                 /\ \A q \in Req \ {r} :
                      /\ pc'[q] = pc[q]
                      /\ request'[q] = request[q]
                      /\ resp'[q] = resp[q]]_vars

\* C15 happens: a synchronous transcription in progress while another
\* request has yet to be taken up.
C15_Witness ==
    \E r, q \in Req :
        /\ pc[r] = "transcribing" /\ request[r].webhook_url = None
        /\ pc[q] = "idle"

\* Step by step, at most one request's own record changes.
OneRequestTouched ==
    \E r \in Req : \A q \in Req \ {r} :
        /\ pc'[q] = pc[q] /\ request'[q] = request[q]
        /\ tasks'[q] = tasks[q] /\ ret'[q] = ret[q]
        /\ resp'[q] = resp[q] /\ calls'[q] = calls[q]

\* C16: the model handle and the model identifier stay as they were at
\* startup through every step; GET / and GET /health answer 200 with the
\* startup identifier and change nothing else (no model call, no task, no
\* job, no POST); a step touches the record of one request only, and the
\* event loop is free again once every request taken up has been answered.
C16_ModelHandleFrame ==
    /\ [](/\ model = load_model(MODEL_NAME)
          /\ lastGet # NoGet =>
               /\ lastGet.status = 200
               /\ lastGet.body.model = MODEL_NAME
          /\ (\A r \in Req : pc[r] \in {"idle", "responded"}) => loop = 0)
    /\ [][/\ MODEL_NAME' = MODEL_NAME
          /\ model' = model
          /\ lastGet' # lastGet => UNCHANGED <<serverVars, calls, jobVars>>
          /\ OneRequestTouched]_vars

\* C16 happens: GET /health answered on a server started with "tiny", after
\* a transcription has been served.
C16_Witness ==
    \E r \in Req :
        /\ MODEL_NAME = "tiny"
        /\ lastGet.path = "/health"
        /\ pc[r] = "responded" /\ calls[r] # <<>>

====
